---- MODULE Spec2Model ----
(***************************************************************************)
(* The QA Dashboard (dashboard/src/dashboard.py): the report parsers, the  *)
(* statistics helpers, the repository health evaluator, the CI status      *)
(* mapper and the driver main().                                           *)
(*                                                                         *)
(* Text is modelled as sequences of one-character strings, so that         *)
(* rstrip/strip/endswith/split/int are computed the way Python computes    *)
(* them.  Python dictionaries are TLA+ functions whose DOMAIN is the set   *)
(* of keys present.  None is modelled by the empty function <<>> where the *)
(* code only tests truthiness or key presence.                             *)
(***************************************************************************)
EXTENDS Integers, Sequences, FiniteSets, TLC

VARIABLES
    \* ---- percentage(part1, part2)
    part1, part2, perc,
    \* ---- parse_linter_results: the open file, the lines read, the locals
    fin, pos, source, files, passed, failed, total, report,
    \* ---- get_source_files: the open file, the lines read, the locals
    cfin, cpos, filenames, line_counts, total_lines, count, inventory,
    \* ---- jobs_as_dict / job_statuses.get
    raw_jobs, job_statuses, job_status,
    \* ---- main(): position, CLI flags, the Results aggregate, the work
    \*      files on disk, the loop index, the raised exception, the outputs
    pc, flags, results, disk, idx, error, csv, log

percVars  == <<part1, part2, perc>>
lintVars  == <<fin, pos, source, files, passed, failed, total, report>>
countVars == <<cfin, cpos, filenames, line_counts, total_lines, count, inventory>>
jobsVars  == <<raw_jobs, job_statuses, job_status>>
mainVars  == <<pc, flags, results, disk, idx, error, csv, log>>
vars == <<percVars, lintVars, countVars, jobsVars, mainVars>>

(***************************************************************************)
(* Bounds of the model.                                                    *)
(***************************************************************************)
MaxCount == 8        \* pass/fail counts handed to percentage
MaxLines == 4        \* lines of one linter / pydocstyle report
MaxCountLines == 3   \* lines of one line-count report
MaxJobs == 3         \* job descriptors in one CI answer
MaxFiles == 3        \* inventory count / report totals handed to the evaluator
NumRepos == 2        \* repositories of the list that the run goes through

(***************************************************************************)
(* Python text primitives.                                                 *)
(***************************************************************************)
None == <<>>

Whitespace == {" ", "\t", "\n"}

Put(d, k, v) == [x \in (DOMAIN d) \cup {k} |-> IF x = k THEN v ELSE d[x]]

RECURSIVE RStrip(_)
RStrip(s) ==
    IF s # <<>> /\ s[Len(s)] \in Whitespace
    THEN RStrip(SubSeq(s, 1, Len(s) - 1))
    ELSE s

RECURSIVE LStrip(_)
LStrip(s) ==
    IF s # <<>> /\ s[1] \in Whitespace
    THEN LStrip(Tail(s))
    ELSE s

Strip(s) == LStrip(RStrip(s))

EndsWith(s, suffix) ==
    /\ Len(s) >= Len(suffix)
    /\ SubSeq(s, Len(s) - Len(suffix) + 1, Len(s)) = suffix

StartsWith(s, prefix) ==
    /\ Len(s) >= Len(prefix)
    /\ SubSeq(s, 1, Len(prefix)) = prefix

\* str.split(" "): the pieces between single spaces (empty pieces are kept)
RECURSIVE SplitFrom(_, _, _)
SplitFrom(s, i, piece) ==
    IF i > Len(s) THEN <<piece>>
    ELSE IF s[i] = " " THEN <<piece>> \o SplitFrom(s, i + 1, <<>>)
    ELSE SplitFrom(s, i + 1, Append(piece, s[i]))

Split(s) == SplitFrom(s, 1, <<>>)

Digits == <<"0", "1", "2", "3", "4", "5", "6", "7", "8", "9">>

IsDigit(c) == \E d \in 1..Len(Digits) : Digits[d] = c

DigitValue(c) == (CHOOSE d \in 1..Len(Digits) : Digits[d] = c) - 1

\* int(text) for a decimal literal; IsIntLiteral tells whether int() accepts it
IsIntLiteral(s) == s # <<>> /\ \A i \in 1..Len(s) : IsDigit(s[i])

RECURSIVE IntOf(_)
IntOf(s) ==
    IF s = <<>> THEN 0
    ELSE 10 * IntOf(SubSeq(s, 1, Len(s) - 1)) + DigitValue(s[Len(s)])

(***************************************************************************)
(* The statistics helpers.                                                 *)
(***************************************************************************)
\* "{:.0f}".format(num / den): the quotient rounded to the nearest integer,
\* an exact tie going to the even neighbour, printed without decimals
Format0f(num, den) ==
    LET q == num \div den
        r2 == 2 * (num % den)
    IN  ToString(IF r2 < den THEN q
                 ELSE IF r2 > den THEN q + 1
                 ELSE IF q % 2 = 0 THEN q ELSE q + 1)

\* faulty variant of percentage: the share of the first argument
percentage_first(p1, p2) ==
    LET sum == p1 + p2
    IN  IF sum = 0 THEN "0" ELSE Format0f(100 * p1, sum)

percentage(p1, p2) ==
    LET sum == p1 + p2
    IN  IF sum = 0 THEN "0" ELSE Format0f(100 * p2, sum)

\* int(p) of a percentage string
IntOfPercentage(p) == CHOOSE n \in 0..100 : ToString(n) = p

progress_bar_class(p) ==
    LET n == IntOfPercentage(p)
    IN  IF n < 10 THEN "progress-bar-danger"
        ELSE IF n > 90 THEN "progress-bar-success"
        ELSE "progress-bar-warning"

\* 15.0 + p * 0.85, in hundredths
progress_bar_width(p) == 1500 + IntOfPercentage(p) * 85

(***************************************************************************)
(* parse_linter_results: the locals before the loop, the effect of one     *)
(* line, the returned report.                                              *)
(***************************************************************************)
DotPy    == <<".", "p", "y">>
PassMark == <<" ", " ", " ", " ", "P", "a", "s", "s">>
FailMark == <<" ", " ", " ", " ", "F", "a", "i", "l">>

LinterLocals ==
    [source |-> None, files |-> <<>>, passed |-> 0, failed |-> 0, total |-> 0]

\* faulty variant of LinterLine: the verdict is counted whether or not a file
\* marker was seen
LinterLine_unguarded(st, rawline) ==
    LET line == RStrip(rawline)
        s1 == IF EndsWith(line, DotPy)
              THEN [st EXCEPT !.source = Strip(line)]
              ELSE st
        s2 == IF EndsWith(line, PassMark)
              THEN [s1 EXCEPT !.passed = @ + 1, !.total = @ + 1,
                              !.files = Put(@, s1.source, TRUE)]
              ELSE s1
        s3 == IF EndsWith(line, FailMark)
              THEN [s2 EXCEPT !.failed = @ + 1, !.total = @ + 1,
                              !.files = Put(@, s2.source, FALSE)]
              ELSE s2
    IN  s3

\* `if source:` is false for None and for the empty string alike
LinterLine(st, rawline) ==
    LET line == RStrip(rawline)
        s1 == IF EndsWith(line, DotPy)
              THEN [st EXCEPT !.source = Strip(line)]
              ELSE st
        s2 == IF EndsWith(line, PassMark) /\ s1.source # <<>>
              THEN [s1 EXCEPT !.passed = @ + 1, !.total = @ + 1,
                              !.files = Put(@, s1.source, TRUE)]
              ELSE s1
        s3 == IF EndsWith(line, FailMark) /\ s2.source # <<>>
              THEN [s2 EXCEPT !.failed = @ + 1, !.total = @ + 1,
                              !.files = Put(@, s2.source, FALSE)]
              ELSE s2
    IN  s3

LinterReport(st) ==
    [files |-> st.files,
     total |-> st.total,
     passed |-> st.passed,
     failed |-> st.failed,
     passed_pct |-> percentage(st.failed, st.passed),
     failed_pct |-> percentage(st.passed, st.failed),
     progress_bar_class |-> progress_bar_class(percentage(st.failed, st.passed)),
     progress_bar_width |-> progress_bar_width(percentage(st.failed, st.passed))]

RECURSIVE LinterLines(_, _)
LinterLines(st, lines) ==
    IF lines = <<>> THEN st
    ELSE LinterLines(LinterLine(st, Head(lines)), Tail(lines))

parse_linter_results(lines) == LinterReport(LinterLines(LinterLocals, lines))

(***************************************************************************)
(* parse_line_count and get_source_files.  A call either returns a value   *)
(* or raises: [raised |-> exception name or "", value |-> ...].            *)
(***************************************************************************)
DotSlash == <<".", "/">>

parse_line_count(rawline) ==
    LET line == Strip(rawline)
        pieces == Split(line)
    IN  IF Len(pieces) # 2
        THEN [raised |-> "ValueError", value |-> <<>>]
        ELSE LET filename == IF StartsWith(pieces[2], DotSlash)
                             THEN SubSeq(pieces[2], Len(DotSlash) + 1, Len(pieces[2]))
                             ELSE pieces[2]
             IN  IF ~IsIntLiteral(pieces[1])
                 THEN [raised |-> "ValueError", value |-> <<>>]
                 ELSE [raised |-> "",
                       value |-> [line_count |-> IntOf(pieces[1]),
                                  filename |-> filename]]

CountLocals ==
    [filenames |-> <<>>, line_counts |-> <<>>, total_lines |-> 0, count |-> 0]

\* one iteration of the loop, for a line parse_line_count accepts
CountLine(st, rawline) ==
    LET parsed == parse_line_count(rawline).value
    IN  [filenames |-> Append(st.filenames, parsed.filename),
         line_counts |-> Put(st.line_counts, parsed.filename, parsed.line_count),
         total_lines |-> st.total_lines + parsed.line_count,
         count |-> st.count + 1]

Inventory(st) ==
    [count |-> st.count,
     filenames |-> st.filenames,
     line_counts |-> st.line_counts,
     total_lines |-> st.total_lines]

RECURSIVE CountLines(_, _)
CountLines(st, lines) ==
    IF lines = <<>> THEN [raised |-> "", value |-> Inventory(st)]
    ELSE IF parse_line_count(Head(lines)).raised # ""
    THEN [raised |-> parse_line_count(Head(lines)).raised, value |-> <<>>]
    ELSE CountLines(CountLine(st, Head(lines)), Tail(lines))

get_source_files(lines) == CountLines(CountLocals, lines)

(***************************************************************************)
(* The repository list, the CI job types, the Results aggregate.           *)
(***************************************************************************)
all_repositories ==
    <<"fabric8-analytics-common",
      "fabric8-analytics-server",
      "fabric8-analytics-worker",
      "fabric8-analytics-jobs",
      "fabric8-analytics-tagger",
      "fabric8-analytics-stack-analysis",
      "fabric8-analytics-license-analysis",
      "fabric8-analytics-data-model",
      "fabric8-analytics-recommender">>

\* the run is modelled over the first NumRepos repositories of the list
repositories == SubSeq(all_repositories, 1, NumRepos)

RepoNames == {repositories[i] : i \in 1..Len(repositories)}

ci_job_types == <<"test_job", "build_job", "pylint_job", "pydoc_job">>

\* Results(): every category empty; the CI maps hold one empty map per repository
ResultsNew ==
    [repositories |-> <<>>,
     sla_table_enabled |-> FALSE,
     liveness_table_enabled |-> FALSE,
     code_quality_table_enabled |-> FALSE,
     ci_jobs_table_enabled |-> FALSE,
     stage |-> None,
     production |-> None,
     smoke_tests_results |-> None,
     perf_tests_results |-> None,
     sla_thresholds |-> None,
     source_files |-> <<>>,
     repo_linter_checks |-> <<>>,
     repo_docstyle_checks |-> <<>>,
     overall_status |-> <<>>,
     remarks |-> <<>>,
     ci_jobs_links |-> [r \in RepoNames |-> <<>>],
     ci_jobs_statuses |-> [r \in RepoNames |-> <<>>]]

(***************************************************************************)
(* update_overall_status.                                                  *)
(***************************************************************************)
RemarkNotAll == "not all source files are checked"

RemarkTotals(n1, n2) ==
    ", linter checked " \o ToString(n1) \o " files, but pydocstyle checked "
        \o ToString(n2) \o " files"

\* faulty variant of update_overall_status: only the linter's failures count
update_overall_status_linter_only(res, repository) ==
    LET source_files == res.source_files[repository].count
        linter_checks == res.repo_linter_checks[repository]
        docstyle_checks == res.repo_docstyle_checks[repository]
        matching == /\ source_files = linter_checks.total
                    /\ source_files = docstyle_checks.total
        status == matching /\ linter_checks.failed = 0
        remarks == IF matching THEN ""
                   ELSE IF linter_checks.total # docstyle_checks.total
                   THEN RemarkNotAll \o RemarkTotals(linter_checks.total,
                                                     docstyle_checks.total)
                   ELSE RemarkNotAll
    IN  [res EXCEPT !.overall_status = Put(@, repository, status),
                    !.remarks = Put(@, repository, remarks)]

\* faulty variant of update_overall_status: only the linter's total is
\* compared with the inventory
update_overall_status_one_total(res, repository) ==
    LET source_files == res.source_files[repository].count
        linter_checks == res.repo_linter_checks[repository]
        docstyle_checks == res.repo_docstyle_checks[repository]
        matching == source_files = linter_checks.total
        status == /\ matching
                  /\ linter_checks.failed = 0
                  /\ docstyle_checks.failed = 0
        remarks == IF matching THEN ""
                   ELSE IF linter_checks.total # docstyle_checks.total
                   THEN RemarkNotAll \o RemarkTotals(linter_checks.total,
                                                     docstyle_checks.total)
                   ELSE RemarkNotAll
    IN  [res EXCEPT !.overall_status = Put(@, repository, status),
                    !.remarks = Put(@, repository, remarks)]

update_overall_status(res, repository) ==
    LET source_files == res.source_files[repository].count
        linter_checks == res.repo_linter_checks[repository]
        docstyle_checks == res.repo_docstyle_checks[repository]
        matching == /\ source_files = linter_checks.total
                    /\ source_files = docstyle_checks.total
        status == /\ matching
                  /\ linter_checks.failed = 0
                  /\ docstyle_checks.failed = 0
        remarks == IF matching THEN ""
                   ELSE IF linter_checks.total # docstyle_checks.total
                   THEN RemarkNotAll \o RemarkTotals(linter_checks.total,
                                                     docstyle_checks.total)
                   ELSE RemarkNotAll
    IN  [res EXCEPT !.overall_status = Put(@, repository, status),
                    !.remarks = Put(@, repository, remarks)]

(***************************************************************************)
(* The CI status mapper.                                                   *)
(***************************************************************************)
\* dict.get(key) of a key that is absent: Python's None, kept apart from
\* every Jenkins colour
Absent == "None"

RECURSIVE JobsInto(_, _)
JobsInto(d, jobs) ==
    IF jobs = <<>> THEN [raised |-> "", value |-> d]
    ELSE LET job == Head(jobs)
         IN  IF "color" \notin DOMAIN job THEN JobsInto(d, Tail(jobs))
             ELSE IF "name" \notin DOMAIN job
             THEN [raised |-> "KeyError", value |-> <<>>]
             ELSE JobsInto(Put(d, job.name, job.color), Tail(jobs))

jobs_as_dict(jobs) == JobsInto(<<>>, jobs)

Get(d, key) == IF key \in DOMAIN d THEN d[key] ELSE Absent

\* requests.get raises when Jenkins cannot be reached; nothing catches it
read_ci_jobs_statuses(answer) ==
    IF ~answer.reachable
    THEN [raised |-> "ConnectionError", value |-> <<>>]
    ELSE jobs_as_dict(answer.jobs)

\* CIJobs.get_job_name / get_job_url: composed from repository and job type
get_job_name(repository, job_type) == repository \o "-" \o job_type

get_job_url(repository, job_type) ==
    "https://ci.centos.org/job/" \o get_job_name(repository, job_type)

(***************************************************************************)
(* Input texts.                                                            *)
(***************************************************************************)
SeqsUpTo(S, n) == UNION {[1..k -> S] : k \in 0..n}

FileA == <<"a", ".", "p", "y">>
FileB == <<"b", ".", "p", "y">>
FileC == <<"c", ".", "p", "y">>
FileD == <<"d", ".", "p", "y">>
SampleFiles == <<FileA, FileB, FileC, FileD>>

\* lines of a linter / pydocstyle report: file markers (one with a newline,
\* one indented), verdicts, and a line that is neither
LinterSampleLines ==
    {FileA \o <<"\n">>,
     <<" ", " ">> \o FileA,
     FileB,
     PassMark \o <<"\n">>,
     FailMark,
     <<"P", "a", "s", "s">>}

\* lines of a line-count report as `wc -l` prints them, and one whose path
\* holds a space
CountSampleLines ==
    {<<"1", "0", " ">> \o DotSlash \o FileA \o <<"\n">>,
     <<" ", "5", " ">> \o DotSlash \o FileB \o <<"\n">>,
     <<"5", " ">> \o FileA,
     <<" ", " ", "7", " ">> \o DotSlash \o FileB,
     <<"3", " ">> \o DotSlash \o <<"x", " ">> \o FileC}

\* a report of p passing files followed by f failing files
LinterText(p, f) ==
    LET entry(i) == <<SampleFiles[i] \o <<"\n">>,
                      (IF i <= p THEN PassMark ELSE FailMark) \o <<"\n">>>>
        RECURSIVE upto(_)
        upto(i) == IF i = 0 THEN <<>> ELSE upto(i - 1) \o entry(i)
    IN  upto(p + f)

\* a line-count report of n files of one line each
CountText(n) ==
    [i \in 1..n |-> <<"1", " ">> \o DotSlash \o SampleFiles[i] \o <<"\n">>]

\* job descriptors: with and without a name, with and without a colour
JobSamples ==
    {[name |-> "j1", color |-> "blue"],
     [name |-> "j1", color |-> "red"],
     [name |-> "j2"],
     [color |-> "blue"],
     [name |-> get_job_name(repositories[1], ci_job_types[1]), color |-> "red"]}

JobNames == {"j1", "j2", get_job_name(repositories[1], ci_job_types[1])}

(***************************************************************************)
(* The variables a specification does not use stay at these values.        *)
(***************************************************************************)
PercIdle == part1 = 0 /\ part2 = 0 /\ perc = ""

LintIdle ==
    /\ fin = <<>> /\ pos = 0 /\ source = None /\ files = <<>>
    /\ passed = 0 /\ failed = 0 /\ total = 0 /\ report = None

CountIdle ==
    /\ cfin = <<>> /\ cpos = 0 /\ filenames = <<>> /\ line_counts = <<>>
    /\ total_lines = 0 /\ count = 0 /\ inventory = None

JobsIdle == raw_jobs = <<>> /\ job_statuses = None /\ job_status = ""

MainIdle ==
    /\ pc = "idle" /\ flags = <<>> /\ results = ResultsNew /\ disk = <<>>
    /\ idx = 0 /\ error = "" /\ csv = <<>> /\ log = <<>>

(***************************************************************************)
(* SpecPercentage: percentage applied to every pair of counts.             *)
(***************************************************************************)
PercInit ==
    /\ part1 \in 0..MaxCount /\ part2 \in 0..MaxCount /\ perc = ""
    /\ LintIdle /\ CountIdle /\ JobsIdle /\ MainIdle

ComputePercentage ==
    /\ perc = ""
    /\ perc' = percentage(part1, part2)
    /\ UNCHANGED <<part1, part2, lintVars, countVars, jobsVars, mainVars>>

PercNext == ComputePercentage

SpecPercentage == PercInit /\ [][PercNext]_vars

(***************************************************************************)
(* SpecLinter: parse_linter_results reading a report line by line.         *)
(***************************************************************************)
LintInit ==
    /\ fin \in SeqsUpTo(LinterSampleLines, MaxLines)
    /\ pos = 0
    /\ source = LinterLocals.source /\ files = LinterLocals.files
    /\ passed = LinterLocals.passed /\ failed = LinterLocals.failed
    /\ total = LinterLocals.total
    /\ report = None
    /\ PercIdle /\ CountIdle /\ JobsIdle /\ MainIdle

ReadLinterLine ==
    /\ report = None
    /\ pos < Len(fin)
    /\ LET st == LinterLine([source |-> source, files |-> files, passed |-> passed,
                             failed |-> failed, total |-> total], fin[pos + 1])
       IN  /\ source' = st.source /\ files' = st.files /\ passed' = st.passed
           /\ failed' = st.failed /\ total' = st.total
    /\ pos' = pos + 1
    /\ UNCHANGED <<fin, report, percVars, countVars, jobsVars, mainVars>>

ReturnLinterReport ==
    /\ report = None
    /\ pos = Len(fin)
    /\ report' = LinterReport([source |-> source, files |-> files, passed |-> passed,
                               failed |-> failed, total |-> total])
    /\ UNCHANGED <<fin, pos, source, files, passed, failed, total,
                   percVars, countVars, jobsVars, mainVars>>

LintNext == ReadLinterLine \/ ReturnLinterReport

SpecLinter == LintInit /\ [][LintNext]_vars

(***************************************************************************)
(* SpecCount: get_source_files reading a line-count report line by line.   *)
(***************************************************************************)
CountInit ==
    /\ cfin \in SeqsUpTo(CountSampleLines, MaxCountLines)
    /\ cpos = 0
    /\ filenames = CountLocals.filenames /\ line_counts = CountLocals.line_counts
    /\ total_lines = CountLocals.total_lines /\ count = CountLocals.count
    /\ inventory = None
    /\ PercIdle /\ LintIdle /\ JobsIdle /\ MainIdle

\* count is incremented before parse_line_count is called; when that raises,
\* the exception leaves get_source_files
ReadCountLine ==
    /\ inventory = None
    /\ cpos < Len(cfin)
    /\ cpos' = cpos + 1
    /\ IF parse_line_count(cfin[cpos + 1]).raised # ""
       THEN /\ count' = count + 1
            /\ inventory' = [raised |-> parse_line_count(cfin[cpos + 1]).raised,
                             value |-> <<>>]
            /\ UNCHANGED <<filenames, line_counts, total_lines>>
       ELSE /\ LET st == CountLine([filenames |-> filenames,
                                    line_counts |-> line_counts,
                                    total_lines |-> total_lines,
                                    count |-> count], cfin[cpos + 1])
               IN  /\ filenames' = st.filenames /\ line_counts' = st.line_counts
                   /\ total_lines' = st.total_lines /\ count' = st.count
            /\ UNCHANGED inventory
    /\ UNCHANGED <<cfin, percVars, lintVars, jobsVars, mainVars>>

ReturnInventory ==
    /\ inventory = None
    /\ cpos = Len(cfin)
    /\ inventory' = [raised |-> "",
                     value |-> Inventory([filenames |-> filenames,
                                          line_counts |-> line_counts,
                                          total_lines |-> total_lines,
                                          count |-> count])]
    /\ UNCHANGED <<cfin, cpos, filenames, line_counts, total_lines, count,
                   percVars, lintVars, jobsVars, mainVars>>

CountNext == ReadCountLine \/ ReturnInventory

SpecCount == CountInit /\ [][CountNext]_vars

(***************************************************************************)
(* SpecJobs: jobs_as_dict over a CI answer, then job_statuses.get(name).   *)
(***************************************************************************)
JobsInit ==
    /\ raw_jobs \in SeqsUpTo(JobSamples, MaxJobs)
    /\ job_statuses = None
    /\ job_status = ""
    /\ PercIdle /\ LintIdle /\ CountIdle /\ MainIdle

JobsAsDict ==
    /\ job_statuses = None
    /\ job_statuses' = jobs_as_dict(raw_jobs)
    /\ UNCHANGED <<raw_jobs, job_status, percVars, lintVars, countVars, mainVars>>

LookupJobStatus ==
    /\ job_statuses # None
    /\ job_statuses.raised = ""
    /\ job_status = ""
    /\ \E name \in JobNames : job_status' = Get(job_statuses.value, name)
    /\ UNCHANGED <<raw_jobs, job_statuses, percVars, lintVars, countVars, mainVars>>

JobsNext == JobsAsDict \/ LookupJobStatus

SpecJobs == JobsInit /\ [][JobsNext]_vars

(***************************************************************************)
(* Properties of percentage (SpecPercentage).                              *)
(***************************************************************************)
Abs(n) == IF n < 0 THEN -n ELSE n

\* r is an integer nearest to num / den
IsNearest(r, num, den) == 2 * Abs(num - r * den) <= den

IsMarkerLine(rawline) == EndsWith(RStrip(rawline), DotPy)
IsPassLine(rawline) == EndsWith(RStrip(rawline), PassMark)
IsFailLine(rawline) == EndsWith(RStrip(rawline), FailMark)

\* the filename of the last file marker among the lines, None when there is none
RECURSIVE LastMarker(_)
LastMarker(lines) ==
    IF lines = <<>> THEN None
    ELSE IF IsMarkerLine(lines[Len(lines)]) THEN Strip(lines[Len(lines)])
    ELSE LastMarker(SubSeq(lines, 1, Len(lines) - 1))

\* C3: the returned report has total = passed + failed and total = the number
\* of entries of files, for every sequence of input lines.
C3_ReportInvariant ==
    report # None =>
        /\ report.total = report.passed + report.failed
        /\ report.total = Cardinality(DOMAIN report.files)

\* C4: a Pass or Fail line read before any file marker changes none of
\* passed, failed, total, files; after a marker, a Pass line adds one to
\* passed and to total and records TRUE for the current marker's filename,
\* a Fail line adds one to failed and to total and records FALSE for it.
C4_VerdictStep ==
    pos' = pos + 1 =>
        LET line == fin[pos + 1]
            marker == LastMarker(SubSeq(fin, 1, pos))
        IN  /\ (IsPassLine(line) \/ IsFailLine(line)) /\ marker = None =>
                    /\ passed' = passed /\ failed' = failed
                    /\ total' = total /\ files' = files
            /\ IsPassLine(line) /\ marker # None =>
                    /\ passed' = passed + 1 /\ total' = total + 1
                    /\ failed' = failed
                    /\ files' = Put(files, marker, TRUE)
            /\ IsFailLine(line) /\ marker # None =>
                    /\ failed' = failed + 1 /\ total' = total + 1
                    /\ passed' = passed
                    /\ files' = Put(files, marker, FALSE)

\* C4: every step of parse_linter_results treats a verdict line as C4_VerdictStep
\* says (ignored before the first file marker, counted and recorded after it).
C4_VerdictLines == [][C4_VerdictStep]_vars

\* a Pass line was read before any marker and left the counters alone, then a
\* marker, then a Fail line that was counted for that marker's filename
C4_Witness ==
    /\ pos = 3
    /\ IsPassLine(fin[1]) /\ IsMarkerLine(fin[2]) /\ IsFailLine(fin[3])
    /\ passed = 0 /\ failed = 1 /\ total = 1
    /\ files = Put(<<>>, Strip(fin[2]), FALSE)

(***************************************************************************)
(* Properties of get_source_files (SpecCount).                             *)
(***************************************************************************)
RECURSIVE SumValues(_)
SumValues(d) ==
    IF DOMAIN d = {} THEN 0
    ELSE LET k == CHOOSE x \in DOMAIN d : TRUE
         IN  d[k] + SumValues([x \in (DOMAIN d) \ {k} |-> d[x]])

\* C5: for a report of lines '<integer> <path>' the returned inventory has
\* count = len(filenames) = len(line_counts) and total_lines = the sum of the
\* values of line_counts.
C5_InventoryInvariant ==
    (inventory # None /\ inventory.raised = "") =>
        LET inv == inventory.value
        IN  /\ inv.count = Len(inv.filenames)
            /\ inv.count = Cardinality(DOMAIN inv.line_counts)
            /\ inv.total_lines = SumValues(inv.line_counts)

(***************************************************************************)
(* Properties of jobs_as_dict (SpecJobs).                                  *)
(***************************************************************************)
\* C7: for descriptors that may lack a name and may lack a colour,
\* jobs_as_dict completes without error; its mapping holds name -> colour for
\* the descriptors that carry a colour and has no entry owed to a descriptor
\* without one; looking up a name that is not in the mapping gives the
\* absent value.
C7_JobsAsDictTotal ==
    /\ job_statuses # None =>
        /\ job_statuses.raised = ""
        /\ \A k \in DOMAIN job_statuses.value :
              \E i \in 1..Len(raw_jobs) :
                 /\ "color" \in DOMAIN raw_jobs[i]
                 /\ "name" \in DOMAIN raw_jobs[i]
                 /\ raw_jobs[i].name = k
                 /\ raw_jobs[i].color = job_statuses.value[k]
        /\ \A i \in 1..Len(raw_jobs) :
              ("color" \in DOMAIN raw_jobs[i] /\ "name" \in DOMAIN raw_jobs[i])
                  => raw_jobs[i].name \in DOMAIN job_statuses.value
    /\ job_status # "" =>
        \/ job_status = Absent
        \/ \E k \in DOMAIN job_statuses.value : job_status = job_statuses.value[k]

(***************************************************************************)
(* SpecStatus: update_overall_status over every combination of inventory   *)
(* count and report totals / failures.  The inventory and the two reports  *)
(* are what the parsers return for generated texts.                        *)
(***************************************************************************)
StatusRepo == repositories[1]

StatusInit ==
    /\ \E c \in 0..MaxFiles, lp \in 0..MaxFiles, lf \in 0..MaxFiles,
          dp \in 0..MaxFiles, df \in 0..MaxFiles :
          /\ lp + lf <= MaxFiles
          /\ dp + df <= MaxFiles
          /\ results =
               [ResultsNew EXCEPT
                  !.source_files =
                      Put(@, StatusRepo, get_source_files(CountText(c)).value),
                  !.repo_linter_checks =
                      Put(@, StatusRepo, parse_linter_results(LinterText(lp, lf))),
                  !.repo_docstyle_checks =
                      Put(@, StatusRepo, parse_linter_results(LinterText(dp, df)))]
    /\ pc = "idle" /\ flags = <<>> /\ disk = <<>>
    /\ idx = 0 /\ error = "" /\ csv = <<>> /\ log = <<>>
    /\ PercIdle /\ LintIdle /\ CountIdle /\ JobsIdle

EvaluateStatus ==
    /\ pc = "idle"
    /\ StatusRepo \in DOMAIN results.source_files
    /\ StatusRepo \notin DOMAIN results.overall_status
    /\ results' = update_overall_status(results, StatusRepo)
    /\ UNCHANGED <<pc, flags, disk, idx, error, csv, log,
                   percVars, lintVars, countVars, jobsVars>>

StatusNext == EvaluateStatus

SpecStatus == StatusInit /\ [][StatusNext]_vars

\* what update_overall_status read, and what it wrote
StatusEvaluated == StatusRepo \in DOMAIN results.overall_status
InvCount == results.source_files[StatusRepo].count
LintTotal == results.repo_linter_checks[StatusRepo].total
LintFailed == results.repo_linter_checks[StatusRepo].failed
DocTotal == results.repo_docstyle_checks[StatusRepo].total
DocFailed == results.repo_docstyle_checks[StatusRepo].failed

\* C1: overall_status[repository] is TRUE if and only if both totals equal
\* the inventory count and both failed counts are 0, and FALSE otherwise.
C1_StatusIff ==
    StatusEvaluated =>
        /\ results.overall_status[StatusRepo] \in BOOLEAN
        /\ results.overall_status[StatusRepo] =
              (/\ LintTotal = InvCount /\ DocTotal = InvCount
               /\ LintFailed = 0 /\ DocFailed = 0)

\* two files, both tools checked both, nothing failed: healthy
C1_Witness ==
    /\ StatusEvaluated
    /\ InvCount = 2 /\ LintTotal = 2 /\ DocTotal = 2
    /\ LintFailed = 0 /\ DocFailed = 0
    /\ results.overall_status[StatusRepo] = TRUE

\* the remark holds the 'linter checked N1 files, but pydocstyle checked N2
\* files' part (a remark is the empty string, the count remark, or the count
\* remark followed by that part)
HasTotalsPart(remark) ==
    remark \in {prefix \o RemarkTotals(LintTotal, DocTotal) :
                   prefix \in {"", RemarkNotAll}}

\* C2: when the inventory count differs from a total, or the totals differ,
\* the remark is non-empty and the status FALSE; the remark holds the totals
\* part exactly when the two totals differ; a TRUE status has an empty remark.
C2_RemarkOnMismatch ==
    StatusEvaluated =>
        /\ (InvCount # LintTotal \/ InvCount # DocTotal \/ LintTotal # DocTotal)
              => /\ results.remarks[StatusRepo] # ""
                 /\ results.overall_status[StatusRepo] = FALSE
        /\ HasTotalsPart(results.remarks[StatusRepo]) <=> (LintTotal # DocTotal)
        /\ results.overall_status[StatusRepo] = TRUE
              => results.remarks[StatusRepo] = ""

\* three files, the linter checked three and pydocstyle two
C2_Witness ==
    /\ StatusEvaluated
    /\ InvCount = 3 /\ LintTotal = 3 /\ DocTotal = 2
    /\ LintFailed = 0 /\ DocFailed = 0
    /\ results.overall_status[StatusRepo] = FALSE
    /\ results.remarks[StatusRepo] =
          "not all source files are checked, linter checked 3 files, but pydocstyle checked 2 files"

(***************************************************************************)
(* main(): what the environment hands to the run.                          *)
(***************************************************************************)
\* check_system's answer: everything up, or nothing reachable
LivenessSamples ==
    {[core_api_available |-> TRUE, jobs_api_available |-> TRUE,
      core_api_auth_token |-> TRUE, jobs_api_auth_token |-> TRUE],
     [core_api_available |-> FALSE, jobs_api_available |-> FALSE,
      core_api_auth_token |-> FALSE, jobs_api_auth_token |-> FALSE]}

\* what run-linter.sh / check-docstyle.sh print for a cloned repository
PylintSamples == {LinterText(2, 0), LinterText(1, 1)}
DocstyleSamples == {LinterText(2, 0)}

\* what `wc -l ... | head -n -1` prints: two files, one file (the only line is
\* cut as if it were the total), a path with a space
CountSamples ==
    {CountText(2),
     CountText(0),
     <<<<"3", " ">> \o DotSlash \o <<"x", " ">> \o FileC \o <<"\n">>>>}

\* Jenkins: unreachable; an answer with a job of the first repository; an
\* answer with a job that has a colour and no name
CiAnswers ==
    {[reachable |-> FALSE, jobs |-> <<>>],
     [reachable |-> TRUE,
      jobs |-> <<[name |-> get_job_name(repositories[1], ci_job_types[1]),
                  color |-> "red"],
                 [name |-> "j2"]>>],
     [reachable |-> TRUE, jobs |-> <<[color |-> "blue"]>>]}

FlagNames ==
    {"ci_jobs_table_enabled", "code_quality_table_enabled",
     "liveness_table_enabled", "sla_table_enabled",
     "clone_repositories_enabled", "cleanup_repositories_enabled"}

(***************************************************************************)
(* main(): the order of the steps.                                         *)
(***************************************************************************)
\* faulty variant of LoopSteps: the clone is removed before the evaluation
LoopSteps_cleanup_early ==
    <<"clone_or_fetch_repository", "run_pylint", "run_docstyle_check",
      "get_source_files", "parse_pylint_results", "parse_docstyle_results",
      "cleanup_repository", "update_overall_status", "ci_jobs">>

\* the body of the loop over the repositories, in program order
LoopSteps ==
    <<"clone_or_fetch_repository", "run_pylint", "run_docstyle_check",
      "get_source_files", "parse_pylint_results", "parse_docstyle_results",
      "update_overall_status", "cleanup_repository", "ci_jobs">>

CodeQualitySteps ==
    {"run_pylint", "run_docstyle_check", "get_source_files",
     "parse_pylint_results", "parse_docstyle_results", "update_overall_status"}

\* the `if ..._enabled:` around each step of the body
StepEnabled(step) ==
    IF step = "clone_or_fetch_repository" THEN flags.clone_repositories_enabled
    ELSE IF step \in CodeQualitySteps THEN flags.code_quality_table_enabled
    ELSE IF step = "cleanup_repository" THEN flags.cleanup_repositories_enabled
    ELSE flags.ci_jobs_table_enabled

\* faulty variant of ExportEnabled: the export runs when either table is enabled
ExportEnabled_either ==
    flags.code_quality_table_enabled \/ flags.liveness_table_enabled

ExportEnabled ==
    flags.code_quality_table_enabled /\ flags.liveness_table_enabled

AfterSla == IF ExportEnabled THEN "export_into_csv" ELSE "generate_dashboard"

AfterLoop == IF flags.sla_table_enabled THEN "prepare_data_for_sla_table" ELSE AfterSla

\* the position <<repository index, step>> reached after step number k of
\* repository number i (k = 0: the top of the body)
RECURSIVE NextInLoop(_, _)
NextInLoop(i, k) ==
    IF i > Len(repositories) THEN <<i, AfterLoop>>
    ELSE LET later == {j \in (k + 1)..Len(LoopSteps) : StepEnabled(LoopSteps[j])}
         IN  IF later # {}
             THEN <<i, LoopSteps[CHOOSE j \in later : \A m \in later : j <= m]>>
             ELSE NextInLoop(i + 1, 0)

StepNumber(step) == CHOOSE k \in 1..Len(LoopSteps) : LoopSteps[k] = step

EnterRepositories ==
    IF flags.ci_jobs_table_enabled THEN <<0, "read_ci_jobs_statuses">>
    ELSE NextInLoop(1, 0)

AfterEnvironment ==
    IF flags.liveness_table_enabled THEN <<0, "prepare_data_for_liveness_table">>
    ELSE EnterRepositories

Goto(position) == idx' = position[1] /\ pc' = position[2]

\* a logged step: of repository number idx inside the loop, of none (0) outside
Event(step, wrote, raised) ==
    [step |-> step,
     repo |-> IF \E k \in 1..Len(LoopSteps) : LoopSteps[k] = step THEN idx ELSE 0,
     wrote |-> wrote,
     raised |-> raised]

\* an exception nothing catches: the process ends with a traceback
Raise(step, exc) ==
    /\ pc' = "crashed"
    /\ error' = exc
    /\ log' = Append(log, Event(step, {}, exc))
    /\ UNCHANGED idx

repository == repositories[idx]

\* '/' in repository: none of the names of the list holds a '/'
HasPathSeparator(name) == FALSE

IntOfBool(b) == IF b THEN 1 ELSE 0

(***************************************************************************)
(* Spec: one run of main().                                                *)
(***************************************************************************)
others == <<percVars, lintVars, countVars, raw_jobs, job_status>>

Init ==
    /\ pc = "check_environment_variables"
    /\ flags \in [FlagNames -> BOOLEAN]
    /\ results = ResultsNew
    /\ \E cloned \in {{}, RepoNames} :
          disk = [cloned |-> cloned, linter |-> <<>>, pydocstyle |-> <<>>,
                  count |-> <<>>]
    /\ idx = 0 /\ error = "" /\ csv = <<>> /\ log = <<>>
    /\ job_statuses = None /\ raw_jobs = <<>> /\ job_status = ""
    /\ PercIdle /\ LintIdle /\ CountIdle

\* check_environment_variables, then results = Results() and the flags
CheckEnvironmentVariables ==
    /\ pc = "check_environment_variables"
    /\ \E complete \in BOOLEAN :
          IF complete
          THEN /\ results' = [ResultsNew EXCEPT
                    !.repositories = repositories,
                    !.sla_table_enabled = flags.sla_table_enabled,
                    !.liveness_table_enabled = flags.liveness_table_enabled,
                    !.code_quality_table_enabled = flags.code_quality_table_enabled,
                    !.ci_jobs_table_enabled = flags.ci_jobs_table_enabled]
               /\ Goto(AfterEnvironment)
               /\ log' = Append(log, Event("check_environment_variables", {}, ""))
               /\ UNCHANGED error
          ELSE /\ pc' = "exited"
               /\ error' = "SystemExit"
               /\ log' = Append(log, Event("check_environment_variables", {},
                                           "SystemExit"))
               /\ UNCHANGED <<results, idx>>
    /\ UNCHANGED <<flags, disk, csv, job_statuses, others>>

PrepareDataForLivenessTable ==
    /\ pc = "prepare_data_for_liveness_table"
    /\ \E stage \in LivenessSamples, production \in LivenessSamples :
          results' = [results EXCEPT !.stage = stage,
                                     !.production = production,
                                     !.smoke_tests_results = [results |-> "smoke"]]
    /\ Goto(EnterRepositories)
    /\ log' = Append(log, Event("prepare_data_for_liveness_table",
                                {"stage", "production"}, ""))
    /\ UNCHANGED <<flags, disk, error, csv, job_statuses, others>>

ReadCiJobsStatuses ==
    /\ pc = "read_ci_jobs_statuses"
    /\ \E answer \in CiAnswers :
          LET got == read_ci_jobs_statuses(answer)
          IN  IF got.raised # ""
              THEN /\ Raise("read_ci_jobs_statuses", got.raised)
                   /\ UNCHANGED job_statuses
              ELSE /\ job_statuses' = got
                   /\ Goto(NextInLoop(1, 0))
                   /\ log' = Append(log, Event("read_ci_jobs_statuses", {}, ""))
                   /\ UNCHANGED error
    /\ UNCHANGED <<flags, results, disk, csv, others>>

\* fetch when the directory is there, clone (which may fail) when it is not
CloneOrFetchRepository ==
    /\ pc = "clone_or_fetch_repository"
    /\ IF repository \in disk.cloned
       THEN UNCHANGED disk
       ELSE \E cloned \in BOOLEAN :
               disk' = [disk EXCEPT !.cloned =
                           IF cloned THEN @ \cup {repository} ELSE @]
    /\ Goto(NextInLoop(idx, StepNumber("clone_or_fetch_repository")))
    /\ log' = Append(log, Event("clone_or_fetch_repository", {}, ""))
    /\ UNCHANGED <<flags, results, error, csv, job_statuses, others>>

\* pushd {repo}; ./run-linter.sh > ../{repo}.linter: without the directory
\* the redirection lands outside the working directory
RunPylint ==
    /\ pc = "run_pylint"
    /\ IF repository \in disk.cloned
       THEN \E text \in PylintSamples :
               disk' = [disk EXCEPT !.linter = Put(@, repository, text)]
       ELSE UNCHANGED disk
    /\ Goto(NextInLoop(idx, StepNumber("run_pylint")))
    /\ log' = Append(log, Event("run_pylint", {}, ""))
    /\ UNCHANGED <<flags, results, error, csv, job_statuses, others>>

RunDocstyleCheck ==
    /\ pc = "run_docstyle_check"
    /\ IF repository \in disk.cloned
       THEN \E text \in DocstyleSamples :
               disk' = [disk EXCEPT !.pydocstyle = Put(@, repository, text)]
       ELSE UNCHANGED disk
    /\ Goto(NextInLoop(idx, StepNumber("run_docstyle_check")))
    /\ log' = Append(log, Event("run_docstyle_check", {}, ""))
    /\ UNCHANGED <<flags, results, error, csv, job_statuses, others>>

\* results.source_files[repository] = get_source_files(repository)
GetSourceFiles ==
    /\ pc = "get_source_files"
    /\ \E text \in CountSamples :
          LET written == IF repository \in disk.cloned
                         THEN Put(disk.count, repository, text)
                         ELSE disk.count
          IN  /\ disk' = [disk EXCEPT !.count = written]
              /\ IF repository \notin DOMAIN written
                 THEN /\ Raise("get_source_files", "FileNotFoundError")
                      /\ UNCHANGED results
                 ELSE LET got == get_source_files(written[repository])
                      IN  IF got.raised # ""
                          THEN /\ Raise("get_source_files", got.raised)
                               /\ UNCHANGED results
                          ELSE /\ results' = [results EXCEPT !.source_files =
                                                 Put(@, repository, got.value)]
                               /\ Goto(NextInLoop(idx, StepNumber("get_source_files")))
                               /\ log' = Append(log, Event("get_source_files",
                                                           {"source_files"}, ""))
                               /\ UNCHANGED error
    /\ UNCHANGED <<flags, csv, job_statuses, others>>

\* results.repo_linter_checks[repository] = parse_pylint_results(repository)
ParsePylintResults ==
    /\ pc = "parse_pylint_results"
    /\ IF repository \notin DOMAIN disk.linter
       THEN /\ Raise("parse_pylint_results", "FileNotFoundError")
            /\ UNCHANGED results
       ELSE /\ results' = [results EXCEPT !.repo_linter_checks =
                  Put(@, repository, parse_linter_results(disk.linter[repository]))]
            /\ Goto(NextInLoop(idx, StepNumber("parse_pylint_results")))
            /\ log' = Append(log, Event("parse_pylint_results",
                                        {"repo_linter_checks"}, ""))
            /\ UNCHANGED error
    /\ UNCHANGED <<flags, disk, csv, job_statuses, others>>

\* results.repo_docstyle_checks[repository] = parse_docstyle_results(repository)
ParseDocstyleResults ==
    /\ pc = "parse_docstyle_results"
    /\ IF repository \notin DOMAIN disk.pydocstyle
       THEN /\ Raise("parse_docstyle_results", "FileNotFoundError")
            /\ UNCHANGED results
       ELSE /\ results' = [results EXCEPT !.repo_docstyle_checks =
                  Put(@, repository,
                      parse_linter_results(disk.pydocstyle[repository]))]
            /\ Goto(NextInLoop(idx, StepNumber("parse_docstyle_results")))
            /\ log' = Append(log, Event("parse_docstyle_results",
                                        {"repo_docstyle_checks"}, ""))
            /\ UNCHANGED error
    /\ UNCHANGED <<flags, disk, csv, job_statuses, others>>

UpdateOverallStatus ==
    /\ pc = "update_overall_status"
    /\ results' = update_overall_status(results, repository)
    /\ Goto(NextInLoop(idx, StepNumber("update_overall_status")))
    /\ log' = Append(log, Event("update_overall_status",
                                {"overall_status", "remarks"}, ""))
    /\ UNCHANGED <<flags, disk, error, csv, job_statuses, others>>

\* the work files stay: delete_work_files is commented out
CleanupRepository ==
    /\ pc = "cleanup_repository"
    /\ disk' = [disk EXCEPT !.cloned =
                   IF HasPathSeparator(repository) THEN @ ELSE @ \ {repository}]
    /\ Goto(NextInLoop(idx, StepNumber("cleanup_repository")))
    /\ log' = Append(log, Event("cleanup_repository", {}, ""))
    /\ UNCHANGED <<flags, results, error, csv, job_statuses, others>>

\* for job_type in ci_job_types: the link and the status of the job
CiJobs ==
    /\ pc = "ci_jobs"
    /\ LET types == {ci_job_types[t] : t \in 1..Len(ci_job_types)}
           links == [jt \in (DOMAIN results.ci_jobs_links[repository]) \cup types |->
                        IF jt \in types THEN get_job_url(repository, jt)
                        ELSE results.ci_jobs_links[repository][jt]]
           statuses == [jt \in (DOMAIN results.ci_jobs_statuses[repository]) \cup types |->
                        IF jt \in types
                        THEN Get(job_statuses.value, get_job_name(repository, jt))
                        ELSE results.ci_jobs_statuses[repository][jt]]
       IN  results' = [results EXCEPT !.ci_jobs_links[repository] = links,
                                      !.ci_jobs_statuses[repository] = statuses]
    /\ Goto(NextInLoop(idx, StepNumber("ci_jobs")))
    /\ log' = Append(log, Event("ci_jobs", {"ci_jobs_links", "ci_jobs_statuses"}, ""))
    /\ UNCHANGED <<flags, disk, error, csv, job_statuses, others>>

PrepareDataForSlaTable ==
    /\ pc = "prepare_data_for_sla_table"
    /\ results' = [results EXCEPT !.perf_tests_results = [results |-> "perf"],
                                  !.sla_thresholds = [results |-> "SLA"]]
    /\ pc' = AfterSla
    /\ log' = Append(log, Event("prepare_data_for_sla_table", {"perf_tests_results"}, ""))
    /\ UNCHANGED <<flags, disk, idx, error, csv, job_statuses, others>>

LivenessKeys ==
    <<"core_api_available", "jobs_api_available",
      "core_api_auth_token", "jobs_api_auth_token">>

\* every slot export_into_csv subscripts is there
ExportReadable ==
    /\ \A k \in 1..Len(LivenessKeys) :
          /\ LivenessKeys[k] \in DOMAIN results.stage
          /\ LivenessKeys[k] \in DOMAIN results.production
    /\ \A r \in RepoNames :
          /\ r \in DOMAIN results.source_files
          /\ r \in DOMAIN results.repo_linter_checks
          /\ r \in DOMAIN results.repo_docstyle_checks

RECURSIVE RepositoryColumns(_)
RepositoryColumns(i) ==
    IF i > Len(repositories) THEN <<>>
    ELSE LET r == repositories[i]
         IN  <<results.source_files[r].count,
               results.source_files[r].total_lines,
               results.repo_linter_checks[r].total,
               results.repo_linter_checks[r].passed,
               results.repo_linter_checks[r].failed,
               results.repo_docstyle_checks[r].total,
               results.repo_docstyle_checks[r].passed,
               results.repo_docstyle_checks[r].failed>> \o RepositoryColumns(i + 1)

ExportIntoCsv ==
    /\ pc = "export_into_csv"
    /\ IF ~ExportReadable
       THEN /\ Raise("export_into_csv", "KeyError")
            /\ UNCHANGED csv
       ELSE /\ csv' = [k \in 1..Len(LivenessKeys) |->
                          IntOfBool(results.stage[LivenessKeys[k]])]
                      \o [k \in 1..Len(LivenessKeys) |->
                          IntOfBool(results.production[LivenessKeys[k]])]
                      \o RepositoryColumns(1)
            /\ pc' = "generate_dashboard"
            /\ log' = Append(log, Event("export_into_csv", {}, ""))
            /\ UNCHANGED <<idx, error>>
    /\ UNCHANGED <<flags, results, disk, job_statuses, others>>

GenerateDashboard ==
    /\ pc = "generate_dashboard"
    /\ pc' = "done"
    /\ log' = Append(log, Event("generate_dashboard", {}, ""))
    /\ UNCHANGED <<flags, results, disk, idx, error, csv, job_statuses, others>>

Next ==
    \/ CheckEnvironmentVariables
    \/ PrepareDataForLivenessTable
    \/ ReadCiJobsStatuses
    \/ CloneOrFetchRepository
    \/ RunPylint
    \/ RunDocstyleCheck
    \/ GetSourceFiles
    \/ ParsePylintResults
    \/ ParseDocstyleResults
    \/ UpdateOverallStatus
    \/ CleanupRepository
    \/ CiJobs
    \/ PrepareDataForSlaTable
    \/ ExportIntoCsv
    \/ GenerateDashboard

Spec == Init /\ [][Next]_vars

(***************************************************************************)
(* Properties of a run of main() (Spec).                                   *)
(***************************************************************************)
\* the number of logged writes of a slot of repository number i
NumWrites(i, slot) ==
    Cardinality({e \in 1..Len(log) : log[e].repo = i /\ slot \in log[e].wrote})

\* a global slot (repository number 0) was written earlier in this run
WrittenGlobal(slot) == NumWrites(0, slot) >= 1

\* C8: for every combination of the enablement flags, when export_into_csv
\* is reached every slot it reads (stage, production, and source_files,
\* repo_linter_checks, repo_docstyle_checks of every repository) was written
\* earlier in the same run; the export never fails on an unpopulated slot.
C8_ExportReadsWritten ==
    /\ pc = "export_into_csv" =>
          /\ WrittenGlobal("stage") /\ WrittenGlobal("production")
          /\ \A i \in 1..Len(repositories) :
                /\ NumWrites(i, "source_files") >= 1
                /\ NumWrites(i, "repo_linter_checks") >= 1
                /\ NumWrites(i, "repo_docstyle_checks") >= 1
          /\ ExportReadable
    /\ \A e \in 1..Len(log) :
          log[e].step = "export_into_csv" => log[e].raised = ""

\* the row was exported in a run with the SLA and CI tables disabled
C8_Witness ==
    /\ csv # <<>>
    /\ pc = "done"
    /\ ~flags.sla_table_enabled /\ ~flags.ci_jobs_table_enabled
    /\ flags.code_quality_table_enabled /\ flags.liveness_table_enabled

\* the CI job-listing request of this run failed
CiRequestFailed ==
    \E e \in 1..Len(log) :
        /\ log[e].step = "read_ci_jobs_statuses"
        /\ log[e].raised = "ConnectionError"

\* C9: when the CI jobs table is enabled and the job-listing request fails,
\* the run continues: it does not end before generate_dashboard, and once it
\* is over the repositories were processed with an absent CI status.
C9_RunContinues ==
    (flags.ci_jobs_table_enabled /\ CiRequestFailed) =>
        /\ pc # "crashed"
        /\ pc = "done" =>
              \A r \in RepoNames, t \in 1..Len(ci_job_types) :
                  /\ ci_job_types[t] \in DOMAIN results.ci_jobs_statuses[r]
                  /\ results.ci_jobs_statuses[r][ci_job_types[t]] = Absent

\* the order the steps of one repository are said to occur in
StepRank(step) ==
    IF step = "clone_or_fetch_repository" THEN 1
    ELSE IF step = "run_pylint" THEN 2
    ELSE IF step = "run_docstyle_check" THEN 3
    ELSE IF step = "get_source_files" THEN 4
    ELSE IF step = "parse_pylint_results" THEN 5
    ELSE IF step = "parse_docstyle_results" THEN 6
    ELSE IF step = "update_overall_status" THEN 7
    ELSE IF step = "cleanup_repository" THEN 8
    ELSE 9

QualitySlots ==
    {"source_files", "repo_linter_checks", "repo_docstyle_checks",
     "overall_status", "remarks"}

\* the loop is past repository number i
Processed(i) ==
    \/ idx > i /\ pc # "crashed"
    \/ pc \in {"prepare_data_for_sla_table", "export_into_csv",
               "generate_dashboard", "done"}

\* C10: the repositories are processed one after another in list order, the
\* enabled steps of each in the order clone/fetch, run linter, run docstyle,
\* read inventory, parse linter report, parse docstyle report, evaluate,
\* cleanup; nothing of a later repository happens before an earlier one is
\* finished; each quality slot of a repository is never written with code
\* quality disabled, never written twice, and written exactly once by the
\* time the loop is past the repository with code quality enabled.
C10_SequentialWriteOnce ==
    /\ \A a \in 1..Len(log), b \in 1..Len(log) :
          (a < b /\ log[a].repo >= 1 /\ log[b].repo >= 1) =>
              \/ log[a].repo < log[b].repo
              \/ /\ log[a].repo = log[b].repo
                 /\ StepRank(log[a].step) < StepRank(log[b].step)
    /\ \A a \in 1..Len(log) :
          /\ log[a].step = "clone_or_fetch_repository"
                => flags.clone_repositories_enabled
          /\ log[a].step \in CodeQualitySteps => flags.code_quality_table_enabled
          /\ log[a].step = "cleanup_repository"
                => flags.cleanup_repositories_enabled
    /\ \A i \in 1..Len(repositories), slot \in QualitySlots :
          /\ NumWrites(i, slot) <= 1
          /\ (repositories[i] \in DOMAIN results[slot]) <=> (NumWrites(i, slot) = 1)
          /\ ~flags.code_quality_table_enabled => NumWrites(i, slot) = 0
          /\ (flags.code_quality_table_enabled /\ Processed(i))
                => NumWrites(i, slot) = 1
    /\ \A i \in 1..Len(repositories) :
          (Processed(i) /\ flags.cleanup_repositories_enabled) =>
              \E a \in 1..Len(log) :
                  log[a].repo = i /\ log[a].step = "cleanup_repository"

\* a finished run that cloned, analysed, evaluated and cleaned up every
\* repository
C10_Witness ==
    /\ pc = "done"
    /\ flags.clone_repositories_enabled /\ flags.code_quality_table_enabled
    /\ flags.cleanup_repositories_enabled /\ flags.ci_jobs_table_enabled
    /\ \A r \in RepoNames : r \in DOMAIN results.overall_status
    /\ \A i \in 1..Len(repositories) :
          \E a \in 1..Len(log) :
              log[a].repo = i /\ log[a].step = "cleanup_repository"

====
